---- MODULE Spec2Model ----
(***************************************************************************)
(* ForceSpaceParticleFilter_weight_mem (simviz_backup.cpp, lines 504-950). *)
(*                                                                         *)
(* Real numbers are fixed-point integers: the double 1.0 is the integer S, *)
(* a vector is a triple of such integers, a weight lies in 0..S.  The      *)
(* resampling comparison r > cumulative[k]/sum is evaluated exactly, by    *)
(* cross-multiplication.                                                   *)
(***************************************************************************)
EXTENDS Integers, Sequences, FiniteSets, TLC

VARIABLES
    n_particles,            \* _n_particles
    particles,              \* _particles
    particles_with_weight,  \* _particles_with_weight
    force_space_dimension,  \* _force_space_dimension
    call,                   \* arguments and locals of the last update() call
    pca,                    \* what the last call returned, if it was computePCA()
    noisy,                  \* non-zero scatter draws made so far
    cycle,                  \* update() calls made by a test scenario
    probe,                  \* arguments and result of a function called alone
    fSimulationRunning,     \* the global flag of line 18
    main_store_pending,     \* main's store to the flag, not yet seen by simulation()
    window_should_close,    \* glfwWindowShouldClose(window)
    main_pc,                \* where main() is
    sim_pc,                 \* where simulation() is
    frames,                 \* frames rendered by main()
    simulation_counter      \* iterations of the simulation loop

filterVars == <<n_particles, particles, particles_with_weight,
                force_space_dimension, call, pca, noisy, cycle, probe>>

threadVars == <<fSimulationRunning, main_store_pending, window_should_close,
                main_pc, sim_pc, frames, simulation_counter>>

vars == <<n_particles, particles, particles_with_weight, force_space_dimension,
          call, pca, noisy, cycle, probe, fSimulationRunning,
          main_store_pending, window_should_close, main_pc, sim_pc, frames,
          simulation_counter>>

-----------------------------------------------------------------------------
(* Arithmetic *)

S == 1000

Zero3 == <<0, 0, 0>>

\* a sequence given as a function of its index, as a tuple
Tuple(f) == f \o <<>>

\* F applied to the value of x, with x computed once
With(x, F(_)) == CHOOSE r \in { F(y) : y \in {x} } : TRUE

\* a / b rounded to the nearest integer, b > 0
RDiv(a, b) == (2 * a + b) \div (2 * b)

RECURSIVE SqrtNewton(_, _)
\* Newton's iteration from y >= sqrt(x), down to the integer part of sqrt(x)
SqrtNewton(x, y) ==
    LET z == (y + x \div y) \div 2
    IN  IF z < y THEN SqrtNewton(x, z) ELSE y

\* std::sqrt on the fixed-point grid, rounded to the nearest integer
Sqrt(x) ==
    IF x = 0 THEN 0
    ELSE LET f == SqrtNewton(x, IF x \div S < S THEN S ELSE x \div S + 1)
         IN  IF x - f * f > f THEN f + 1 ELSE f

\* the product of two fixed-point numbers
Mul(a, b) == RDiv(a * b, S)

Dot(a, b) == a[1] * b[1] + a[2] * b[2] + a[3] * b[3]

VAdd(a, b) == <<a[1] + b[1], a[2] + b[2], a[3] + b[3]>>

\* Eigen's v.norm(), in units of 1/S
Norm(v) == Sqrt(Dot(v, v))

\* normalize() dividing by the squared norm
NormalizeBySquaredNorm(v) ==
    LET q == RDiv(Dot(v, v), S)
    IN  IF q > 0
        THEN <<RDiv(v[1] * S, q), RDiv(v[2] * S, q), RDiv(v[3] * S, q)>>
        ELSE v

\* Eigen's v.normalize(): a vector of squared norm 0 is left as it is
Normalize(v) ==
    LET z == Dot(v, v)
        norm == Sqrt(z)
    IN  IF z > 0
        THEN <<RDiv(v[1] * S, norm), RDiv(v[2] * S, norm), RDiv(v[3] * S, norm)>>
        ELSE v

-----------------------------------------------------------------------------
(* Configuration set by the constructor *)

mean_scatter == 0
std_scatter == 5
memory_coefficient == 0
F_low == 0
F_high == 5000
v_low == 5
v_high == 50
F_low_add == 3000
F_high_add == 10000
v_low_add == 0
v_high_add == 10

-----------------------------------------------------------------------------
(* Weighting functions *)

Clamp01(w) == IF w > S THEN S ELSE IF w < 0 THEN 0 ELSE w

\* wf_pw without the final clamp
wf_pw_unclamped(particle, force_measured, fl, fh) ==
    IF Norm(particle) < S \div 10
    THEN S - RDiv((Norm(force_measured) - fl) * S, fh - fl)
    ELSE RDiv((RDiv(Dot(particle, force_measured), S) - fl) * S, fh - fl)

wf_pw(particle, force_measured, fl, fh) ==
    Clamp01(IF Norm(particle) < S \div 10
            THEN S - RDiv((Norm(force_measured) - fl) * S, fh - fl)
            ELSE RDiv((RDiv(Dot(particle, force_measured), S) - fl) * S, fh - fl))

wv_pw(particle, velocity_measured, vl, vh) ==
    Clamp01(IF Norm(particle) > 1
            THEN S - RDiv((RDiv(Dot(particle, velocity_measured), S) - vl) * S, vh - vl)
            ELSE S \div 2)

-----------------------------------------------------------------------------
(* motionUpdateAndWeighting *)

\* motion_control / force_control normalised when longer than the deadband 0.001
ControlNormalized(v) == IF Norm(v) > 1 THEN Normalize(v) ELSE Zero3

\* prob_add_particle as the sum of the two weights
ProbAddParticleSum(dim, motion_control_normalized, velocity_measured, force_measured) ==
    LET wf == IF dim < 2
              THEN wf_pw(motion_control_normalized, force_measured, F_low_add, F_high_add)
              ELSE wf_pw(motion_control_normalized, force_measured,
                         3 * F_low_add, 3 * F_high_add)
        wv == wv_pw(motion_control_normalized, velocity_measured, v_low_add, v_high_add)
    IN  wf + wv

\* prob_add_particle, lines 600-617
ProbAddParticle(dim, motion_control_normalized, velocity_measured, force_measured) ==
    LET wf == IF dim < 2
              THEN wf_pw(motion_control_normalized, force_measured, F_low_add, F_high_add)
              ELSE wf_pw(motion_control_normalized, force_measured,
                         3 * F_low_add, 3 * F_high_add)
        wv == wv_pw(motion_control_normalized, velocity_measured, v_low_add, v_high_add)
        p  == Mul(wf, wv)
    IN  IF p < 0 THEN 0 ELSE p

\* prob_add_particle * _n_particles rounded to the nearest integer
NAddedRound(prob, n) == RDiv(prob * n, S)

\* int n_added_particles = prob_add_particle * _n_particles (truncation)
NAdded(prob, n) == (prob * n) \div S

\* the i-th (0-based) of n injected particles, lines 622-624
NewParticle(i, n, motion_control_normalized, force_control_normalized) ==
    LET a == 2 * i + 1
        b == 2 * n
        m == motion_control_normalized
        f == force_control_normalized
    IN  Normalize(<<RDiv((b - a) * m[1] + a * f[1], b),
                    RDiv((b - a) * m[2] + a * f[2], b),
                    RDiv((b - a) * m[3] + a * f[3], b)>>)

\* the scatter without the contact test
ScatterAlways(current_particle, noise) ==
    Normalize(VAdd(current_particle, noise))

\* control update of one candidate, lines 638-648
Scatter(current_particle, noise) ==
    IF Norm(current_particle) > 1
    THEN Normalize(VAdd(current_particle, noise))
    ELSE current_particle

\* the weight of candidate i (1-based), lines 650-708
\* the blend with the two coefficients exchanged
BlendSwapped(mem, i, weight, pww, n) ==
    IF i <= n
    THEN Mul(weight, mem) + Mul(S - mem, pww[i].second)
    ELSE weight

\* lines 700-704 for candidate i (1-based) when _memory_coefficient is mem
Blend(mem, i, weight, pww, n) ==
    IF i <= n
    THEN Mul(weight, S - mem) + Mul(mem, pww[i].second)
    ELSE weight

\* weight_force * weight_velocity, line 699
FreshWeight(current_particle, velocity_measured, force_measured) ==
    Mul(wf_pw(current_particle, force_measured, F_low, F_high),
        wv_pw(current_particle, velocity_measured, v_low, v_high))

Weight(i, current_particle, pww, n, velocity_measured, force_measured) ==
    Blend(memory_coefficient, i,
          FreshWeight(current_particle, velocity_measured, force_measured),
          pww, n)

\* the i-th triple of draws of sampleNormalDistribution, lines 642-644
DrawAt(noise, i) == IF i \in DOMAIN noise THEN noise[i] ELSE Zero3

\* the candidate directions before the scatter, lines 573-626
AugmentedParticles(ps, n, n_added, mcn, fcn) ==
    ps \o <<Zero3>>
       \o Tuple([i \in 1..n_added |-> NewParticle(i - 1, n_added, mcn, fcn)])

\* mc, fc, vm, fm: motion_control, force_control, velocity_measured,
\* force_measured
motionUpdateAndWeighting(ps, pww, n, dim, mc, fc, vm, fm, noise) ==
    LET mcn       == ControlNormalized(mc)
        fcn       == ControlNormalized(fc)
        prob      == ProbAddParticle(dim, mcn, vm, fm)
        n_added   == NAdded(prob, n)
        augmented == AugmentedParticles(ps, n, n_added, mcn, fcn)
    IN  Tuple([i \in 1..Len(augmented) |->
            LET current_particle == Scatter(augmented[i], DrawAt(noise, i))
            IN  [first  |-> current_particle,
                 second |-> Weight(i, current_particle, pww, n, vm, fm)]])

-----------------------------------------------------------------------------
(* resamplingLowVariance *)

RD == 2

RECURSIVE CumulativeExtend(_, _)
CumulativeExtend(aug, acc) ==
    IF Len(acc) = Len(aug) THEN acc
    ELSE CumulativeExtend(aug,
            Append(acc, (IF acc = <<>> THEN 0 ELSE acc[Len(acc)])
                        + aug[Len(acc) + 1].second))

\* cumulative_weights before the division by sum_of_weights, lines 724-729
CumulativeWeights(aug) == CumulativeExtend(aug, <<>>)

\* sum_of_weights
SumOfWeights(aug) ==
    IF aug = <<>> THEN 0 ELSE CumulativeWeights(aug)[Len(aug)]

\* the comparison when r is never advanced by n_inv
RGreaterNoStep(cum, n, rn, i, k) ==
    LET total == cum[Len(cum)]
    IN  IF total = 0 THEN FALSE
        ELSE rn * total > cum[k] * n * RD

\* the comparison against cumulative weights that were not divided by
\* sum_of_weights
RGreaterUnnormalised(cum, n, rn, i, k) ==
    LET total == cum[Len(cum)]
    IN  IF total = 0 THEN FALSE
        ELSE (rn + i * RD) * S > cum[k] * n * RD

\* r > cumulative_weights[k] for output slot i (0-based), where
\* r = (rn + i * RD) / (n * RD) and cumulative_weights[k] = cum[k] / total.
\* A total of 0 makes every cumulative weight 0/0, a NaN, and every
\* comparison with it false.
RGreater(cum, n, rn, i, k) ==
    LET total == cum[Len(cum)]
    IN  IF total = 0 THEN FALSE
        ELSE (rn + i * RD) * total > cum[k] * n * RD

RECURSIVE Advance(_, _, _, _, _)
\* while(r > cumulative_weights[k]) k++, lines 742-745. A result of
\* Len(cum) + 1 is a pointer that left the array: the loop read every
\* element and none stopped it.
Advance(cum, n, rn, i, k) ==
    IF k <= Len(cum) /\ RGreater(cum, n, rn, i, k)
    THEN Advance(cum, n, rn, i, k + 1)
    ELSE k

RECURSIVE ResampleLoop(_, _, _, _, _, _)
\* the loop of lines 740-752: acc[i + 1] is the candidate index (1-based)
\* copied to output slot i
ResampleLoop(cum, n, rn, i, k, acc) ==
    IF Len(acc) = n THEN acc
    ELSE LET k2 == Advance(cum, n, rn, i, k)
         IN  ResampleLoop(cum, n, rn, i + 1, k2, Append(acc, k2))

\* the candidate index chosen for each output slot
Selection(aug, n, rn) ==
    ResampleLoop(CumulativeWeights(aug), n, rn, 0, 1, <<>>)

\* resamplingLowVariance appending the selected candidates (push_back)
resamplingPushBack(ps, pww, aug, n, rn) ==
    LET ks == Selection(aug, n, rn)
    IN  [particles |-> ps \o Tuple([i \in 1..n |-> aug[ks[i]].first]),
         particles_with_weight |-> pww \o Tuple([i \in 1..n |-> aug[ks[i]]])]

\* resamplingLowVariance adding the selected direction to the slot (+=)
resamplingAccumulate(ps, pww, aug, n, rn) ==
    LET ks == Selection(aug, n, rn)
    IN  [particles |->
            Tuple([i \in 1..Len(ps) |->
                IF i <= n THEN VAdd(ps[i], aug[ks[i]].first) ELSE ps[i]]),
         particles_with_weight |->
            Tuple([i \in 1..Len(pww) |-> IF i <= n THEN aug[ks[i]] ELSE pww[i]])]

\* resamplingLowVariance leaving the direction of _particles_with_weight alone
resamplingWeightOnly(ps, pww, aug, n, rn) ==
    LET ks == Selection(aug, n, rn)
    IN  [particles |->
            Tuple([i \in 1..Len(ps) |-> IF i <= n THEN aug[ks[i]].first ELSE ps[i]]),
         particles_with_weight |->
            Tuple([i \in 1..Len(pww) |->
                IF i <= n THEN [first |-> pww[i].first, second |-> aug[ks[i]].second]
                ELSE pww[i]])]

\* _particles and _particles_with_weight after resamplingLowVariance
resamplingLowVariance(ps, pww, aug, n, rn) ==
    LET ks == Selection(aug, n, rn)
    IN  [particles |->
            Tuple([i \in 1..Len(ps) |-> IF i <= n THEN aug[ks[i]].first ELSE ps[i]]),
         particles_with_weight |->
            Tuple([i \in 1..Len(pww) |-> IF i <= n THEN aug[ks[i]] ELSE pww[i]])]

-----------------------------------------------------------------------------
(* computePCA *)

\* points_to_PCA with exactly one column per particle
PointsToPCAExact(ps, n) == Tuple([j \in 1..n |-> ps[j]])

\* points_to_PCA: 3 x (int)(1.5 * _n_particles), the particles then zero columns
PointsToPCA(ps, n) ==
    Tuple([j \in 1..((3 * n) \div 2) |-> IF j <= n THEN ps[j] ELSE Zero3])

RECURSIVE SumOver(_, _, _)
\* the sum of f[lo..hi]
SumOver(f, lo, hi) ==
    IF lo > hi THEN 0
    ELSE IF lo = hi THEN f[lo]
    ELSE LET mid == (lo + hi) \div 2
         IN  SumOver(f, lo, mid) + SumOver(f, mid + 1, hi)

\* points_to_PCA.rowwise().mean()
RowwiseMean(pts) ==
    Tuple([c \in 1..3 |->
        RDiv(SumOver([j \in 1..Len(pts) |-> pts[j][c]], 1, Len(pts)), Len(pts))])

\* cov = centered * centered^T, in units of 1/S
Covariance(pts) ==
    With(RowwiseMean(pts), LAMBDA mean :
    With(Tuple([j \in 1..Len(pts) |->
              <<pts[j][1] - mean[1], pts[j][2] - mean[2], pts[j][3] - mean[3]>>]),
         LAMBDA centered :
        Tuple([a \in 1..3 |-> Tuple([b \in 1..3 |->
            RDiv(SumOver([j \in 1..Len(pts) |-> centered[j][a] * centered[j][b]],
                         1, Len(pts)), S)])])))

Abs(x) == IF x < 0 THEN -x ELSE x

Max3(a, b, c) == IF a >= b /\ a >= c THEN a ELSE IF b >= c THEN b ELSE c

MatVec(m, v) == <<Dot(m[1], v), Dot(m[2], v), Dot(m[3], v)>>

\* v^T m v for a unit vector v, in the units of m
Rayleigh(m, v) ==
    LET w == MatVec(m, v)
    IN  RDiv(v[1] * RDiv(w[1], S) + v[2] * RDiv(w[2], S) + v[3] * RDiv(w[3], S), S)

\* m v brought back to unit length; a v that m sends to zero is kept
PowerStep(m, v) ==
    With(MatVec(m, v), LAMBDA w :
        LET d == Max3(Abs(w[1]), Abs(w[2]), Abs(w[3])) \div S + 1
        IN  With(<<RDiv(w[1], d), RDiv(w[2], d), RDiv(w[3], d)>>, LAMBDA u :
                IF u = Zero3 THEN v ELSE Normalize(u)))

PowerIterations == 8

RECURSIVE PowerIterate(_, _, _)
PowerIterate(m, v, k) ==
    IF k = 0 THEN v
    ELSE With(PowerStep(m, v), LAMBDA w : PowerIterate(m, w, k - 1))

\* The unit eigenvector of the largest eigenvalue of the symmetric matrix m,
\* found from the three axes; among equal eigenvalues the solver keeps the
\* later column, so the zero matrix yields the third axis.
DominantEigenvector(m) ==
    With(PowerIterate(m, <<S, 0, 0>>, PowerIterations), LAMBDA v1 :
    With(PowerIterate(m, <<0, S, 0>>, PowerIterations), LAMBDA v2 :
    With(PowerIterate(m, <<0, 0, S>>, PowerIterations), LAMBDA v3 :
        LET l1 == Rayleigh(m, v1)
            l2 == Rayleigh(m, v2)
            l3 == Rayleigh(m, v3)
        IN  IF l3 >= l1 /\ l3 >= l2 THEN v3 ELSE IF l2 >= l1 THEN v2 ELSE v1)))

\* m with the eigenpair (l, v) removed
Deflate(m, l, v) ==
    Tuple([a \in 1..3 |-> Tuple([b \in 1..3 |->
        m[a][b] - RDiv(l * RDiv(v[a] * v[b], S), S)])])

\* the largest eigenvalue of m
DominantEigenvalue(m) == With(DominantEigenvector(m), LAMBDA v : Rayleigh(m, v))

\* SelfAdjointEigenSolver: the eigenvalues in increasing order, as the solver
\* returns them, and the last column of eigenvectors()
EigenSolve(m) ==
    With(DominantEigenvector(m), LAMBDA v :
    With(Rayleigh(m, v), LAMBDA l :
    With(Deflate(m, l, v), LAMBDA m2 :
    With(DominantEigenvalue(m2), LAMBDA l2 :
        [eigenvalues |-> <<m[1][1] + m[2][2] + m[3][3] - l - l2, l2, l>>,
         dominant |-> v]))))

\* computePCA centring _particles in place
computePCAInPlace(ps, n) ==
    With(PointsToPCA(ps, n), LAMBDA pts :
    With(RowwiseMean(pts), LAMBDA mean :
    With(Covariance(pts), LAMBDA cov :
    With(EigenSolve(cov), LAMBDA eig :
        [particles |-> Tuple([i \in 1..Len(ps) |->
                          <<ps[i][1] - mean[1], ps[i][2] - mean[2],
                            ps[i][3] - mean[3]>>]),
         cov |-> cov, eigenvalues |-> eig.eigenvalues,
         dominant |-> eig.dominant]))))

\* computePCA: what it leaves in _particles and what it returns
computePCA(ps, n) ==
    With(PointsToPCA(ps, n), LAMBDA pts :
    With(Covariance(pts), LAMBDA cov :
    With(EigenSolve(cov), LAMBDA eig :
        [particles |-> ps, cov |-> cov,
         eigenvalues |-> eig.eigenvalues, dominant |-> eig.dominant])))

-----------------------------------------------------------------------------
(* The filter as a state machine *)

MaxN == 2
MaxNoisy == 1

\* _force_space_dimension is not set by the constructor: any value
DimValues == {1, 2}

\* the arguments of update() that are tried:
\* <<motion_control, force_control, velocity_measured, force_measured>>
UpdateInputs ==
    { <<Zero3, Zero3, Zero3, Zero3>>,
      <<Zero3, Zero3, Zero3, <<10 * S, 0, 0>> >>,
      <<<<2 * S, 0, 0>>, <<0, S, 0>>, Zero3, <<8 * S, 0, 0>> >>,
      <<<<2 * S, 0, 0>>, <<0, S, 0>>, Zero3, <<10 * S, 0, 0>> >>,
      <<<<2 * S, 0, 0>>, <<0, S, 0>>, <<100, 0, 0>>, <<10 * S, 0, 0>> >>,
      <<<<2 * S, 0, 0>>, <<-S, 0, 0>>, Zero3, <<30 * S, 0, 0>> >> }

\* the non-zero triples sampleNormalDistribution is taken to return
NonZeroNoise == { <<0, std_scatter, 0>> }

RECURSIVE IndexSets(_, _)
\* the sets of at most b indices among 1..len
IndexSets(len, b) ==
    IF b <= 0 THEN {{}}
    ELSE LET prev == IndexSets(len, b - 1)
         IN  prev \cup {Z \cup {i} : Z \in prev, i \in 1..len}

\* the scatter draws of one update() call: one triple per candidate, at most
\* budget of them other than zero
NoiseDraws(len, budget) ==
    UNION { { Tuple([i \in 1..len |-> IF i \in Z THEN d[i] ELSE Zero3]) :
                d \in [Z -> NonZeroNoise] } : Z \in IndexSets(len, budget) }

NonZeroDraws(noise) == Cardinality({i \in DOMAIN noise : noise[i] # Zero3})

NoCall == [aug |-> <<>>, prob |-> 0, n_added |-> 0]
NoPCA == [cov |-> <<>>]
NoProbe == [op |-> "none"]

\* ForceSpaceParticleFilter_weight_mem(n_particles), lines 511-537
Constructed(n) ==
    /\ n_particles = n
    /\ particles = Tuple([i \in 1..n |-> Zero3])
    /\ particles_with_weight = Tuple([i \in 1..n |-> [first |-> Zero3, second |-> S]])
    /\ force_space_dimension \in DimValues
    /\ call = NoCall
    /\ pca = NoPCA
    /\ noisy = 0
    /\ cycle = 0
    /\ probe = NoProbe

\* the globals at program start (line 18) and the two threads before main()
\* has created sim_thread's body: main() is about to test the render loop's
\* condition, simulation() is in the set-up that precedes its line 292
ProgramStart ==
    /\ fSimulationRunning = FALSE
    /\ main_store_pending = FALSE
    /\ window_should_close = FALSE
    /\ main_pc = "render"
    /\ sim_pc = "setup"
    /\ frames = 0
    /\ simulation_counter = 0

Init == (\E n \in 1..MaxN : Constructed(n)) /\ ProgramStart

\* update(motion_control, force_control, velocity_measured, force_measured)
\* with the draws of sampleNormalDistribution (noise) and of
\* sampleUniformDistribution (rn / (n * RD)), lines 539-546
update(mc, fc, vm, fm, noise, rn) ==
    LET mcn  == ControlNormalized(mc)
        prob == ProbAddParticle(force_space_dimension, mcn, vm, fm)
        aug  == motionUpdateAndWeighting(particles, particles_with_weight,
                    n_particles, force_space_dimension, mc, fc, vm, fm, noise)
        out  == resamplingLowVariance(particles, particles_with_weight, aug,
                    n_particles, rn)
    IN  /\ particles' = out.particles
        /\ particles_with_weight' = out.particles_with_weight
        /\ call' = [aug |-> aug, prob |-> prob,
                    n_added |-> Len(aug) - n_particles - 1]
        /\ pca' = NoPCA
        /\ noisy' = noisy + NonZeroDraws(noise)
        /\ UNCHANGED <<n_particles, force_space_dimension, probe>>
        /\ UNCHANGED threadVars

Update ==
    \E in \in UpdateInputs, rn \in 0..(RD - 1),
       noise \in NoiseDraws(2 * n_particles + 1, MaxNoisy - noisy) :
        /\ update(in[1], in[2], in[3], in[4], noise, rn)
        /\ UNCHANGED cycle

ComputePCA ==
    LET out == computePCA(particles, n_particles)
    IN  /\ particles' = out.particles
        /\ pca' = [cov |-> out.cov, eigenvalues |-> out.eigenvalues,
                    dominant |-> out.dominant]
        /\ UNCHANGED <<n_particles, particles_with_weight,
                       force_space_dimension, call, noisy, cycle, probe>>
        /\ UNCHANGED threadVars

Next == Update \/ ComputePCA

Spec == Init /\ [][Next]_vars

-----------------------------------------------------------------------------
(* The weighting functions called alone *)

ProbeParticles == { Zero3, <<S, 0, 0>>, <<0, -S, 0>>, <<600, 800, 0>> }

ProbeMeasured ==
    { Zero3, <<4 * S, 0, 0>>, <<-12 * S, 0, 0>>, <<0, 30 * S, 0>>,
      <<100, 0, 0>>, <<-20, 15, 0>> }

ProbeLow == { -S, 0, 5, 3 * S }

ProbeHigh == { 10, 50, 5 * S, 10 * S }

EvalWeights ==
    /\ probe = NoProbe
    /\ \E p \in ProbeParticles, m \in ProbeMeasured,
         lo \in ProbeLow, hi \in ProbeHigh :
        /\ hi > lo
        /\ probe' = [op |-> "weights", particle |-> p, measured |-> m,
                     low |-> lo, high |-> hi,
                     wf |-> wf_pw(p, m, lo, hi), wv |-> wv_pw(p, m, lo, hi)]
        /\ UNCHANGED <<n_particles, particles, particles_with_weight,
                       force_space_dimension, call, pca, noisy, cycle>>
        /\ UNCHANGED threadVars

NextW == EvalWeights

SpecW == Init /\ [][NextW]_vars

-----------------------------------------------------------------------------
(* The weight of one candidate, for a given _memory_coefficient *)

MemoryCoefficients == { 0, 300, S }

PreviousWeights == { 0, 100, 800, S }

BlendMeasured == { Zero3, <<2 * S, 0, 0>>, <<4 * S, 0, 0>> }

EvalBlend ==
    /\ probe = NoProbe
    /\ \E mem \in MemoryCoefficients, i \in 1..(n_particles + 2),
          p \in ProbeParticles, fm \in BlendMeasured :
         \E prev \in [1..n_particles -> PreviousWeights] :
            LET pww == Tuple([j \in 1..n_particles |->
                           [first |-> Zero3, second |-> prev[j]]])
                w   == FreshWeight(p, Zero3, fm)
            IN  /\ probe' = [op |-> "blend", mem |-> mem, i |-> i, fresh |-> w,
                             previous |-> Tuple(prev),
                             weight |-> Blend(mem, i, w, pww, n_particles)]
                /\ UNCHANGED <<n_particles, particles, particles_with_weight,
                               force_space_dimension, call, pca, noisy, cycle>>
                /\ UNCHANGED threadVars

NextBlend == EvalBlend

SpecBlend == Init /\ [][NextBlend]_vars

-----------------------------------------------------------------------------
(* The resampling selection called alone *)

MaxRN == 10
MaxRCand == 3

RSWeights == { 0, 100, 500, 900 }

RSDirections == << <<S, 0, 0>>, <<0, S, 0>>, <<0, 0, S>>, <<-S, 0, 0>> >>

Resample ==
    /\ probe = NoProbe
    /\ \E n \in 1..MaxRN, len \in 2..MaxRCand, rn \in 0..(RD - 1) :
         \E ws \in [1..len -> RSWeights] :
            LET aug == Tuple([k \in 1..len |->
                           [first |-> RSDirections[((k - 1) % 4) + 1],
                            second |-> ws[k]]])
            IN  /\ probe' = [op |-> "resample", n |-> n, rn |-> rn, aug |-> aug,
                             selection |-> Selection(aug, n, rn)]
                /\ UNCHANGED <<n_particles, particles, particles_with_weight,
                               force_space_dimension, call, pca, noisy, cycle>>
                /\ UNCHANGED threadVars

NextRS == Resample

SpecRS == Init /\ [][NextRS]_vars

-----------------------------------------------------------------------------
(* Scenario: no contact, every argument of update() zero *)

NoContactN == 10
Cycles == 50

InitNoContact == Constructed(NoContactN) /\ ProgramStart

NoContactUpdate ==
    /\ cycle < Cycles
    /\ \E rn \in 0..(RD - 1),
          noise \in NoiseDraws(2 * n_particles + 1, MaxNoisy - noisy) :
            update(Zero3, Zero3, Zero3, Zero3, noise, rn)
    /\ cycle' = cycle + 1

NextNoContact == NoContactUpdate

SpecNoContact == InitNoContact /\ [][NextNoContact]_vars

-----------------------------------------------------------------------------
(* Scenario: pressing along x against a contact *)

ConvN == 100

ConvInput == << <<S, 0, 0>>, <<S, 0, 0>>, Zero3, <<4 * S, 0, 0>> >>

\* the candidate whose scatter draw may be non-zero: the first injected one
ConvNoiseSlots == { ConvN + 2 }

NoiseAt(slots, len, budget) ==
    UNION { { Tuple([i \in 1..len |-> IF i \in Z THEN d[i] ELSE Zero3]) :
                d \in [Z -> NonZeroNoise] } :
            Z \in { Y \in SUBSET slots : Cardinality(Y) <= budget } }

\* the number of update() calls, the last ones of the scenario, in which a
\* scatter draw may be non-zero
ConvNoisyCycles == 3

InitConv == Constructed(ConvN) /\ ProgramStart

ConvUpdate ==
    /\ cycle < Cycles
    /\ \E rn \in 0..(RD - 1),
          noise \in NoiseAt(ConvNoiseSlots, ConvN + 2,
                            IF cycle >= Cycles - ConvNoisyCycles
                            THEN MaxNoisy - noisy
                            ELSE 0) :
            update(ConvInput[1], ConvInput[2], ConvInput[3], ConvInput[4],
                   noise, rn)
    /\ cycle' = cycle + 1

ConvPCA == cycle = Cycles /\ pca = NoPCA /\ ComputePCA

NextConv == ConvUpdate \/ ConvPCA

SpecConv == InitConv /\ [][NextConv]_vars

-----------------------------------------------------------------------------
(* main() and simulation(): start and shutdown of the simulation thread *)

\* counters stop counting here; the loops go on
MaxFrames == 3
MaxSimSteps == 3

Saturate(c, max) == IF c < max THEN c + 1 ELSE max

\* one pass of while (!glfwWindowShouldClose(window)), lines 139-215: a frame
\* is rendered and the events are polled, where keySelect (ESC, line 449) or
\* the window's close button may set the close flag
RenderFrame ==
    /\ main_pc = "render"
    /\ ~window_should_close
    /\ frames' = Saturate(frames, MaxFrames)
    /\ \E close \in BOOLEAN : window_should_close' = close
    /\ UNCHANGED <<fSimulationRunning, main_store_pending, main_pc, sim_pc,
                   simulation_counter>>
    /\ UNCHANGED filterVars

\* the loop condition of line 139 is false
ExitRenderLoop ==
    /\ main_pc = "render"
    /\ window_should_close
    /\ main_pc' = "stop"
    /\ UNCHANGED <<fSimulationRunning, main_store_pending, window_should_close,
                   sim_pc, frames, simulation_counter>>
    /\ UNCHANGED filterVars

\* fSimulationRunning = false, line 218.  The flag is a plain bool written
\* and read by two threads with no synchronisation: the store reaches
\* simulation() at once or some time later
StopSimulation ==
    /\ main_pc = "stop"
    /\ main_store_pending' = TRUE
    /\ main_pc' = "join"
    /\ UNCHANGED <<fSimulationRunning, window_should_close, sim_pc, frames,
                   simulation_counter>>
    /\ UNCHANGED filterVars

\* main's store becomes the value simulation() reads.  The loop body calls
\* functions of other translation units, so the flag is read again at every
\* test and the store is seen after finitely many of them
StoreVisible ==
    /\ main_store_pending
    /\ fSimulationRunning' = FALSE
    /\ main_store_pending' = FALSE
    /\ UNCHANGED <<window_should_close, main_pc, sim_pc, frames,
                   simulation_counter>>
    /\ UNCHANGED filterVars

\* sim_thread.join() returns once simulation() has returned; main() then
\* destroys the window and returns, lines 219-227
Join ==
    /\ main_pc = "join"
    /\ sim_pc = "returned"
    /\ main_pc' = "done"
    /\ UNCHANGED <<fSimulationRunning, main_store_pending, window_should_close,
                   sim_pc, frames, simulation_counter>>
    /\ UNCHANGED filterVars

\* the end of simulation()'s set-up: fSimulationRunning = true, line 292
SimStart ==
    /\ sim_pc = "setup"
    /\ fSimulationRunning' = TRUE
    /\ sim_pc' = "test"
    /\ UNCHANGED <<main_store_pending, window_should_close, main_pc, frames,
                   simulation_counter>>
    /\ UNCHANGED filterVars

\* while (fSimulationRunning), line 293
SimLoopTest ==
    /\ sim_pc = "test"
    /\ sim_pc' = IF fSimulationRunning THEN "body" ELSE "exit"
    /\ UNCHANGED <<fSimulationRunning, main_store_pending, window_should_close,
                   main_pc, frames, simulation_counter>>
    /\ UNCHANGED filterVars

\* one simulation step, lines 294-425
SimLoopBody ==
    /\ sim_pc = "body"
    /\ simulation_counter' = Saturate(simulation_counter, MaxSimSteps)
    /\ sim_pc' = "test"
    /\ UNCHANGED <<fSimulationRunning, main_store_pending, window_should_close,
                   main_pc, frames>>
    /\ UNCHANGED filterVars

\* the statistics are printed and simulation() returns, lines 427-432
SimReturn ==
    /\ sim_pc = "exit"
    /\ sim_pc' = "returned"
    /\ UNCHANGED <<fSimulationRunning, main_store_pending, window_should_close,
                   main_pc, frames, simulation_counter>>
    /\ UNCHANGED filterVars

MainThread == RenderFrame \/ ExitRenderLoop \/ StopSimulation \/ Join

SimThread == SimStart \/ SimLoopTest \/ SimLoopBody \/ SimReturn

NextShutdown == MainThread \/ SimThread \/ StoreVisible

\* both threads are scheduled again and again, and a store is seen in the end
SpecShutdown ==
    /\ Init
    /\ [][NextShutdown]_vars
    /\ WF_vars(MainThread)
    /\ WF_vars(SimThread)
    /\ WF_vars(StoreVisible)

-----------------------------------------------------------------------------
(* Properties checked under Spec *)

\* of length 1 to within one unit of the representation (0.001)
IsUnit(v) == Norm(v) >= S - 1 /\ Norm(v) <= S + 1

Updated == call # NoCall

\* C1: the Population holds exactly N particles after construction and after
\* every update() call, and N never changes.
C1_PopulationSize ==
    /\ [](Len(particles) = n_particles)
    /\ [][n_particles' = n_particles]_vars

C1_Witness ==
    /\ Updated
    /\ n_particles = MaxN
    /\ Len(particles) = MaxN
    /\ \E i \in 1..Len(particles) : particles[i] # Zero3

\* C2: every particle of the Population is the zero vector or has unit
\* length (to the resolution of the arithmetic), injected particles included.
C2_ZeroOrUnit ==
    \A i \in 1..Len(particles) : particles[i] = Zero3 \/ IsUnit(particles[i])

\* a particle strictly between the commanded motion (x) and force (y) axes
C2_Witness ==
    /\ call.n_added > 0
    /\ \E i \in 1..Len(particles) :
          /\ particles[i][1] > 0
          /\ particles[i][2] > std_scatter
          /\ IsUnit(particles[i])

\* C3: in every update cycle the augmented candidate list handed to the
\* resampler has a strictly positive total weight.
C3_PositiveTotalWeight ==
    Updated => SumOfWeights(call.aug) > 0

\* the null candidate and every other candidate weigh 0: the measured
\* force is at least F_high and nothing was injected
C3_ZeroTotalWeight ==
    /\ Updated
    /\ call.n_added = 0
    /\ Len(call.aug) = n_particles + 1
    /\ call.aug[n_particles + 1] = [first |-> Zero3, second |-> 0]
    /\ SumOfWeights(call.aug) = 0

\* C4: every direction the resampling pass stored in the Population is the
\* direction of a candidate of the list given to that pass.
C4_OnlyCandidates ==
    Updated =>
        \A i \in 1..Len(particles) :
            \E k \in 1..Len(call.aug) : particles[i] = call.aug[k].first

\* an injected candidate was copied
C4_Witness ==
    /\ Updated
    /\ \E i \in 1..Len(particles) :
          /\ particles[i] # Zero3
          /\ \E k \in (n_particles + 2)..Len(call.aug) :
                particles[i] = call.aug[k].first
          /\ \A k \in 1..(n_particles + 1) : particles[i] # call.aug[k].first

\* C7: the number of injected particles lies in [0, N]; a probability of 0
\* injects none and a probability of 1 injects exactly N.
C7_InjectionBound ==
    Updated =>
        /\ call.n_added >= 0
        /\ call.n_added <= n_particles
        /\ (call.prob = 0 => call.n_added = 0)
        /\ (call.prob = S => call.n_added = n_particles)

\* full injection with the dimensionality hint at 2
C7_Witness ==
    /\ Updated
    /\ force_space_dimension >= 2
    /\ n_particles = MaxN
    /\ call.prob = S
    /\ call.n_added = n_particles

\* C10: computePCA leaves the Population, PopulationWithWeight and the
\* configuration as they are, and a second computePCA call right after the
\* first returns what the first returned.
C10_PCAReadOnly ==
    [][pca' # NoPCA =>
          /\ particles' = particles
          /\ particles_with_weight' = particles_with_weight
          /\ n_particles' = n_particles
          /\ force_space_dimension' = force_space_dimension
          /\ (pca # NoPCA => pca' = pca)]_vars

\* computePCA has returned for a Population that update() has filled
C10_Witness ==
    /\ Updated
    /\ pca # NoPCA
    /\ \E i \in 1..Len(particles) : particles[i] # Zero3
    /\ pca.cov[1][1] > 0

-----------------------------------------------------------------------------
(* Properties checked under SpecRS, SpecW, SpecNoContact and SpecConv *)

\* the number of output slots that candidate k was copied to
Copies(selection, k) == Cardinality({i \in 1..Len(selection) : selection[i] = k})

\* C5: when the total weight is positive, a candidate of normalised weight w
\* is copied a number of times that differs from N * w by at most 1, for
\* every offset r in [0, 1/N).
C5_Proportional ==
    (probe.op = "resample" /\ SumOfWeights(probe.aug) > 0) =>
        \A k \in 1..Len(probe.aug) :
            LET total == SumOfWeights(probe.aug)
                d == Copies(probe.selection, k) * total
                     - probe.n * probe.aug[k].second
            IN  d <= total /\ -d <= total

\* weights [0.9, 0.1] and N = 10: 9 copies and 1 copy
C5_Witness ==
    /\ probe.op = "resample"
    /\ probe.n = 10
    /\ Len(probe.aug) = 2
    /\ probe.aug[1].second = 900
    /\ probe.aug[2].second = 100
    /\ Copies(probe.selection, 1) = 9
    /\ Copies(probe.selection, 2) = 1

\* C6: wf_pw and wv_pw return a value in [0, 1] for every direction, every
\* measured vector and every threshold pair with high > low.
C6_WeightsBounded ==
    probe.op = "weights" =>
        /\ probe.wf >= 0 /\ probe.wf <= S
        /\ probe.wv >= 0 /\ probe.wv <= S

\* both raw scores fall outside [0, 1] and are clamped
C6_Witness ==
    /\ probe.op = "weights"
    /\ probe.particle # Zero3
    /\ probe.high > probe.low
    /\ probe.low # 0
    /\ probe.wf = S
    /\ probe.wv = 0

ZeroCount(ps) == Cardinality({i \in 1..Len(ps) : ps[i] = Zero3})

\* C8: from the freshly constructed Population, after every one of 50
\* consecutive update() calls with all four arguments zero, more than 90% of
\* the slots hold the zero vector.
C8_NoContactStable ==
    cycle <= Cycles => 10 * ZeroCount(particles) > 9 * n_particles

C8_Witness ==
    /\ cycle = Cycles
    /\ call.n_added > 0
    /\ ZeroCount(particles) = n_particles

Cos5Deg == (99620 * S) \div 100000

Converged ==
    /\ Abs(pca.dominant[1]) >= Cos5Deg
    /\ pca.eigenvalues[3] >= 3 * pca.eigenvalues[2]
    /\ pca.eigenvalues[3] >= 3 * pca.eigenvalues[1]

-----------------------------------------------------------------------------
(* Further properties checked under Spec *)

\* C11: PopulationWithWeight mirrors Population: after construction (zero
\* particles of weight 1) and after every update() call both arrays have
\* length N and slot i of PopulationWithWeight holds the direction of
\* Population slot i.
C11_Mirror ==
    /\ Len(particles) = n_particles
    /\ Len(particles_with_weight) = n_particles
    /\ \A i \in 1..n_particles : particles_with_weight[i].first = particles[i]
    /\ ~Updated =>
          \A i \in 1..n_particles :
              particles_with_weight[i] = [first |-> Zero3, second |-> S]

\* a slot that update() filled with a non-zero direction and its weight
C11_Witness ==
    /\ Updated
    /\ n_particles = MaxN
    /\ \E i \in 1..n_particles :
          /\ particles[i] # Zero3
          /\ particles_with_weight[i].first = particles[i]
          /\ particles_with_weight[i].second > 0
          /\ particles_with_weight[i].second < S

\* C12: the number of particles injected in an update cycle is
\* round(probability * N).
C12_Rounded ==
    Updated => call.n_added = NAddedRound(call.prob, n_particles)

\* C12 as the code has it: the number of particles injected is
\* probability * N truncated to an integer.
C12_Truncated ==
    Updated => call.n_added = (call.prob * n_particles) \div S

\* probability * N has a fractional part of at least one half, and was
\* truncated
C12_Witness ==
    /\ Updated
    /\ call.prob > 0
    /\ 2 * ((call.prob * n_particles) % S) >= S
    /\ call.n_added = (call.prob * n_particles) \div S
    /\ call.n_added < NAddedRound(call.prob, n_particles)

-----------------------------------------------------------------------------
(* Further properties checked under SpecRS *)

Resampled == probe.op = "resample" /\ SumOfWeights(probe.aug) > 0

\* C13: when the total candidate weight is positive, the pointer k stops at
\* a candidate index for each of the N output slots, never past the last
\* one, and never decreases from one slot to the next.
C13_PointerInRange ==
    Resampled =>
        /\ Len(probe.selection) = probe.n
        /\ \A i \in 1..probe.n : probe.selection[i] \in 1..Len(probe.aug)
        /\ \A i \in 1..(probe.n - 1) :
              probe.selection[i] <= probe.selection[i + 1]

\* the pointer went from the first candidate to the last, stepping over a
\* candidate in one advance
C13_Witness ==
    /\ Resampled
    /\ probe.n = MaxRN
    /\ probe.selection[1] = 1
    /\ probe.selection[probe.n] = Len(probe.aug)
    /\ \E i \in 1..(probe.n - 1) :
          probe.selection[i + 1] >= probe.selection[i] + 2

\* C16: when the total candidate weight is positive, a candidate whose weight
\* is exactly zero is never copied into the resampled Population, for every
\* offset r in [0, 1/N), r = 0 included, and every position of the candidate,
\* the first included.
C16_ZeroWeightNeverCopied ==
    Resampled =>
        \A k \in 1..Len(probe.aug) :
            probe.aug[k].second = 0 => Copies(probe.selection, k) = 0

\* the offset drawn is 0 and the first candidate weighs 0: r > 0 is false at
\* the first slot, and the first candidate is copied
C16_ZeroWeightCopied ==
    /\ Resampled
    /\ probe.rn = 0
    /\ probe.aug[1].second = 0
    /\ probe.selection[1] = 1
    /\ Copies(probe.selection, 1) = 1

\* with an offset above 0, no zero-weight candidate is copied
C16_PositiveOffset ==
    (Resampled /\ probe.rn > 0) =>
        \A k \in 1..Len(probe.aug) :
            probe.aug[k].second = 0 => Copies(probe.selection, k) = 0

-----------------------------------------------------------------------------
(* Properties checked under SpecBlend *)

\* C14: a candidate at an index below N weighs
\* w * (1 - memory_coefficient) + memory_coefficient * W[i], with w its fresh
\* weight and W[i] the weight recorded in slot i; the null candidate and
\* the injected candidates weigh the unblended w.
C14_BlendBelowN ==
    probe.op = "blend" =>
        IF probe.i <= n_particles
        THEN probe.weight = RDiv(probe.fresh * (S - probe.mem), S)
                            + RDiv(probe.mem * probe.previous[probe.i], S)
        ELSE probe.weight = probe.fresh

\* a blend that moves the weight strictly between w and W[i]
C14_Witness ==
    /\ probe.op = "blend"
    /\ probe.i = n_particles
    /\ probe.mem > 0
    /\ probe.mem < S
    /\ probe.fresh < probe.weight
    /\ probe.weight < probe.previous[probe.i]

-----------------------------------------------------------------------------
(* Properties checked under SpecShutdown *)

\* C17: shutdown always completes: in every interleaving of main() and
\* simulation(), once the render loop has exited and main() has set
\* fSimulationRunning to false, simulation() leaves its loop and
\* sim_thread.join() returns, also when the window closes before simulation()
\* has executed its own fSimulationRunning = true.
C17_ShutdownCompletes == (main_pc = "join") ~> (main_pc = "done")

\* main() waits in join(), its store has been seen and then overwritten by
\* simulation()'s own fSimulationRunning = true, and the loop runs on
C17_JoinBlocked ==
    /\ main_pc = "join"
    /\ ~main_store_pending
    /\ fSimulationRunning
    /\ sim_pc = "body"
    /\ simulation_counter = MaxSimSteps

\* when simulation() has passed its line 292 by the time main() leaves the
\* render loop, shutdown completes
C17_CompletesAfterStart ==
    [](main_pc = "stop" => sim_pc # "setup") => C17_ShutdownCompletes

====
